---- MODULE Spec2Model ----
(***************************************************************************)
(* Schnorr identification proof (proof-essentials, zkp/proofs/             *)
(* schnorr_identification/proof.rs): Proof::verify and the canonical       *)
(* (de)serialization of Proof through ProofAffine.                         *)
(*                                                                         *)
(* The type parameter C: ProjectiveCurve is instantiated with the short    *)
(* Weierstrass curve y^2 = x^3 + x + 6 over F_7, which has prime order 11  *)
(* (cofactor 1), in Jacobian coordinates.  The type parameter D: Digest    *)
(* and the ChaCha stream of FiatShamirRng are instantiated with small      *)
(* deterministic functions.  Field elements occupy one byte each.          *)
(***************************************************************************)
EXTENDS Integers, Sequences, FiniteSets, TLC

(* ---------------------------------------------------------------------- *)
(* Bounds of the model                                                     *)
(* ---------------------------------------------------------------------- *)
\* Jacobian Z coordinates 1..MaxZ are used for the in-memory representations
MaxZ == 2
\* initial transcript seeds 0..MaxSeed
MaxSeed == 1
\* parameters are the generator multiples 1..MaxParam
MaxParam == 2
\* low six bits of the bytes received from the wire range over 0..MaxLow
MaxLow == 7
\* bytes that follow a complete encoding in the reader
MaxTrailing == 1

(* ---------------------------------------------------------------------- *)
(* C: ProjectiveCurve, its base field and its scalar field                 *)
(* ---------------------------------------------------------------------- *)
Curve == [q |-> 7, a |-> 1, b |-> 6, r |-> 11, gx |-> 1, gy |-> 1]

BaseField == 0..(Curve.q - 1)
ScalarField == 0..(Curve.r - 1)

FMod(v) == v % Curve.q
FInv(v) == CHOOSE w \in BaseField : FMod(v * w) = 1
FNeg(v) == FMod(Curve.q - v)

\* C::Affine: GroupAffine {x, y, infinity}; zero() is (0, 1, infinity)
AffineZero == [x |-> 0, y |-> 1, infinity |-> TRUE]
Aff(x, y) == [x |-> x, y |-> y, infinity |-> FALSE]

IsOnCurve(P) ==
    P.infinity \/ FMod(P.y * P.y) = FMod(P.x * P.x * P.x + Curve.a * P.x + Curve.b)

AffinePoints ==
    {AffineZero} \cup {P \in {Aff(x, y) : x \in BaseField, y \in BaseField} : IsOnCurve(P)}

\* group law on affine points (chord and tangent)
AffAdd(P, Q) ==
    IF P.infinity THEN Q
    ELSE IF Q.infinity THEN P
    ELSE IF P.x = Q.x /\ FMod(P.y + Q.y) = 0 THEN AffineZero
    ELSE LET lam == IF P.x = Q.x
                    THEN FMod((3 * P.x * P.x + Curve.a) * FInv(FMod(2 * P.y)))
                    ELSE FMod((Q.y + Curve.q - P.y) * FInv(FMod(Q.x + Curve.q - P.x)))
             x3  == FMod(lam * lam + 2 * Curve.q - P.x - Q.x)
             y3  == FMod(lam * (P.x + Curve.q - x3) + Curve.q - P.y)
         IN  Aff(x3, y3)

RECURSIVE AffMulRec(_, _)
AffMulRec(P, k) == IF k = 0 THEN AffineZero ELSE AffAdd(P, AffMulRec(P, k - 1))

\* table of scalar multiples, computed once
MulTable == [P \in AffinePoints |-> [k \in ScalarField |-> AffMulRec(P, k)]]

\* C (projective): GroupProjective {x, y, z}, Jacobian: (X/Z^2, Y/Z^3)
Proj(x, y, z) == [x |-> x, y |-> y, z |-> z]
ProjectiveZero == Proj(0, 1, 0)

\* AffineCurve::into_projective
IntoProjective(P) == IF P.infinity THEN ProjectiveZero ELSE Proj(P.x, P.y, 1)

\* ProjectiveCurve::into_affine
IntoAffine(P) ==
    IF P.z = 0 THEN AffineZero
    ELSE LET zi == FInv(P.z)
         IN  Aff(FMod(P.x * zi * zi), FMod(P.y * zi * zi * zi))

\* PartialEq of GroupProjective: equality of the group elements
ProjEq(P, Q) ==
    IF P.z = 0 THEN Q.z = 0
    ELSE IF Q.z = 0 THEN FALSE
    ELSE /\ FMod(P.x * Q.z * Q.z) = FMod(Q.x * P.z * P.z)
         /\ FMod(P.y * Q.z * Q.z * Q.z) = FMod(Q.y * P.z * P.z * P.z)

\* the in-memory representation of the affine point P with Z coordinate z
Rescale(P, z) ==
    IF P.infinity THEN ProjectiveZero
    ELSE Proj(FMod(P.x * z * z), FMod(P.y * z * z * z), z)

\* AffineCurve::mul(scalar.into_repr()) : C::Affine -> C
Mul(P, k) == IntoProjective(MulTable[P][k])

\* Add for C
ProjAdd(P, Q) == IntoProjective(AffAdd(IntoAffine(P), IntoAffine(Q)))

Generator == Aff(Curve.gx, Curve.gy)

(* ---------------------------------------------------------------------- *)
(* Bytes: to_bytes! (ToBytes) of the absorbed values                       *)
(* ---------------------------------------------------------------------- *)
\* b"schnorr_identity"
Label == <<115, 99, 104, 110, 111, 114, 114, 95, 105, 100, 101, 110, 116, 105, 116, 121>>

\* ToBytes for C::Affine: x, y, infinity
AffineToBytes(P) == <<P.x, P.y, IF P.infinity THEN 1 ELSE 0>>

\* ToBytes for C: the Jacobian coordinates x, y, z as held in memory
ProjectiveToBytes(P) == <<P.x, P.y, P.z>>

\* the statement absorbed before the parameters
AbsorbedBytes_Reordered(params, stmt, prf) ==
    Label \o AffineToBytes(stmt) \o AffineToBytes(params) \o ProjectiveToBytes(prf.random_commit)

\* the statement left out
AbsorbedBytes_NoStatement(params, stmt, prf) ==
    Label \o AffineToBytes(params) \o ProjectiveToBytes(prf.random_commit)

\* self absorbed whole, the opening included
AbsorbedBytes_WholeProof(params, stmt, prf) ==
    Label \o AffineToBytes(params) \o AffineToBytes(stmt)
          \o ProjectiveToBytes(prf.random_commit) \o <<prf.opening>>

\* to_bytes![b"schnorr_identity", pp, statement, &self.random_commit]
AbsorbedBytes(params, stmt, prf) ==
    Label \o AffineToBytes(params) \o AffineToBytes(stmt) \o ProjectiveToBytes(prf.random_commit)

(* ---------------------------------------------------------------------- *)
(* FiatShamirRng<D>: seed = D::digest(input ++ seed), r = ChaCha(seed)     *)
(* ---------------------------------------------------------------------- *)
Digest == [size |-> 16, iv |-> 3, mult |-> 5]
Stream == [bits |-> 16, a |-> 3, b |-> 7, c |-> 5]

RECURSIVE DigestRec(_, _)
DigestRec(bytes, h) ==
    IF bytes = <<>> THEN h
    ELSE DigestRec(Tail(bytes), (h * Digest.mult + Head(bytes) + 1) % Digest.size)

\* D::digest
DigestOf(bytes) == DigestRec(bytes, Digest.iv)

\* FiatShamirRng::absorb: rehash the input followed by the old seed, restart the stream
RngAbsorb(rng, bytes) == [seed |-> DigestOf(bytes \o <<rng.seed>>), pos |-> 0]

\* the pos-th output of the stream seeded with seed, masked to the modulus' bit length
StreamWord(seed, pos) == (seed * Stream.a + pos * Stream.b + Stream.c) % Stream.bits

\* C::ScalarField::rand: rejection sampling from the stream
RECURSIVE RandScalar(_)
RandScalar(rng) ==
    LET w    == StreamWord(rng.seed, rng.pos)
        next == [rng EXCEPT !.pos = rng.pos + 1]
    IN  IF w < Curve.r THEN [value |-> w, rng |-> next] ELSE RandScalar(next)

(* ---------------------------------------------------------------------- *)
(* Proof::verify                                                           *)
(* ---------------------------------------------------------------------- *)
Ok == [tag |-> "Ok", msg |-> ""]
ProofVerificationError == [tag |-> "ProofVerificationError", msg |-> "Schnorr Identification"]
Pending == [tag |-> "Pending", msg |-> ""]

\* the equation of the textbook verifier, pp * opening = random_commit + statement * c
EquationFails_CommitSide(params, stmt, prf, ch) ==
    ~ProjEq(Mul(params, prf.opening), ProjAdd(prf.random_commit, Mul(stmt, ch)))

\* the two scalars exchanged
EquationFails_Swapped(params, stmt, prf, ch) ==
    ~ProjEq(ProjAdd(Mul(params, ch), Mul(stmt, prf.opening)), prf.random_commit)

\* pp.mul(opening) + statement.mul(c) != self.random_commit
EquationFails(params, stmt, prf, ch) ==
    ~ProjEq(ProjAdd(Mul(params, prf.opening), Mul(stmt, ch)), prf.random_commit)

(* ---------------------------------------------------------------------- *)
(* CanonicalSerialize / CanonicalDeserialize of C::Affine and ScalarField  *)
(* (one byte per field element, SWFlags in the two top bits)               *)
(* ---------------------------------------------------------------------- *)
Flags == [shift |-> 64, infinity |-> 64, positive_y |-> 128]

DecOk(v, rest) == [tag |-> "Ok", value |-> v, rest |-> rest, err |-> ""]
DecErr(e) == [tag |-> "Err", value |-> 0, rest |-> <<>>, err |-> e]

\* SWFlags::from_y_sign(y > -y)
YSignFlag(y) == IF y > FNeg(y) THEN Flags.positive_y ELSE 0

\* GroupAffine::serialize: x with the sign flag, or the infinity flag alone
AffineSerialize(P) ==
    IF P.infinity THEN <<Flags.infinity>> ELSE <<P.x + YSignFlag(P.y)>>

\* GroupAffine::serialize_uncompressed (and serialize_unchecked): x, then y with flags
AffineSerializeUncompressed(P) ==
    <<P.x, P.y + (IF P.infinity THEN Flags.infinity ELSE 0)>>

\* Fp::serialize for the scalar field
ScalarSerialize(k) == <<k>>

\* Fp::deserialize (EmptyFlags) over the field of the given modulus
FieldDeserialize(bytes, modulus) ==
    IF Len(bytes) < 1 THEN DecErr("IoError")
    ELSE IF Head(bytes) >= modulus THEN DecErr("InvalidData")
    ELSE DecOk(Head(bytes), Tail(bytes))

\* Fp::deserialize_with_flags::<SWFlags>: value [v, flags]
FieldDeserializeWithFlags(bytes, modulus) ==
    IF Len(bytes) < 1 THEN DecErr("IoError")
    ELSE LET fl == (Head(bytes) \div Flags.shift) * Flags.shift
             v  == Head(bytes) % Flags.shift
         IN  IF fl = Flags.infinity + Flags.positive_y THEN DecErr("UnexpectedFlags")
             ELSE IF v >= modulus THEN DecErr("InvalidData")
             ELSE DecOk([v |-> v, flags |-> fl], Tail(bytes))

\* GroupAffine::get_point_from_x(x, greatest): the set is empty when x has no point
PointFromX(x, greatest) ==
    LET ys == {y \in BaseField : IsOnCurve(Aff(x, y))}
    IN  IF ys = {} THEN {}
        ELSE {Aff(x, CHOOSE y \in ys : \A o \in ys : IF greatest THEN y >= o ELSE y <= o)}

\* is_in_correct_subgroup_assuming_on_curve: r * P = 0
InCorrectSubgroup(P) ==
    P.infinity \/ AffAdd(MulTable[P][Curve.r - 1], P) = AffineZero

\* the validity check of the checked decoders
IsValidPoint(P) == IsOnCurve(P) /\ InCorrectSubgroup([P EXCEPT !.x = IF P.infinity THEN 0 ELSE @, !.y = IF P.infinity THEN 1 ELSE @])

\* GroupAffine::deserialize (compressed, checked)
AffineDeserialize(bytes) ==
    LET f == FieldDeserializeWithFlags(bytes, Curve.q)
    IN  IF f.tag = "Err" THEN f
        ELSE IF f.value.flags = Flags.infinity THEN DecOk(AffineZero, f.rest)
        ELSE LET ps == PointFromX(f.value.v, f.value.flags = Flags.positive_y)
             IN  IF ps = {} THEN DecErr("InvalidData")
                 ELSE LET P == CHOOSE Q \in ps : TRUE
                      IN  IF InCorrectSubgroup(P) THEN DecOk(P, f.rest)
                          ELSE DecErr("InvalidData")

\* GroupAffine::deserialize_unchecked: x, y and the infinity flag as read
AffineDeserializeUnchecked(bytes) ==
    LET fx == FieldDeserialize(bytes, Curve.q)
    IN  IF fx.tag = "Err" THEN fx
        ELSE LET fy == FieldDeserializeWithFlags(fx.rest, Curve.q)
             IN  IF fy.tag = "Err" THEN fy
                 ELSE DecOk([x |-> fx.value, y |-> fy.value.v,
                             infinity |-> fy.value.flags = Flags.infinity], fy.rest)

\* GroupAffine::deserialize_uncompressed: the unchecked read, then the validity check
AffineDeserializeUncompressed(bytes) ==
    LET u == AffineDeserializeUnchecked(bytes)
    IN  IF u.tag = "Err" THEN u
        ELSE IF IsValidPoint(u.value) THEN u
        ELSE DecErr("InvalidData")

(* ---------------------------------------------------------------------- *)
(* ProofAffine: derived CanonicalSerialize / CanonicalDeserialize          *)
(* ---------------------------------------------------------------------- *)
ProofAffine(P, k) == [random_commit |-> P, opening |-> k]

ProofAffineSerialize(a) == AffineSerialize(a.random_commit) \o ScalarSerialize(a.opening)
ProofAffineSerializeUncompressed(a) ==
    AffineSerializeUncompressed(a.random_commit) \o ScalarSerialize(a.opening)
\* the default serialize_unchecked of the fields is serialize_uncompressed
ProofAffineSerializeUnchecked(a) ==
    AffineSerializeUncompressed(a.random_commit) \o ScalarSerialize(a.opening)
ProofAffineSerializedSize(a) ==
    Len(AffineSerialize(a.random_commit)) + Len(ScalarSerialize(a.opening))
ProofAffineUncompressedSize(a) ==
    Len(AffineSerializeUncompressed(a.random_commit)) + Len(ScalarSerialize(a.opening))

\* the fields are read in declaration order; the first error is returned
ProofAffineFields(pt) ==
    IF pt.tag = "Err" THEN pt
    ELSE LET k == FieldDeserialize(pt.rest, Curve.r)
         IN  IF k.tag = "Err" THEN k
             ELSE DecOk(ProofAffine(pt.value, k.value), k.rest)

ProofAffineDeserialize(bytes) == ProofAffineFields(AffineDeserialize(bytes))
ProofAffineDeserializeUncompressed(bytes) ==
    ProofAffineFields(AffineDeserializeUncompressed(bytes))
ProofAffineDeserializeUnchecked(bytes) ==
    ProofAffineFields(AffineDeserializeUnchecked(bytes))

(* ---------------------------------------------------------------------- *)
(* impl CanonicalSerialize for Proof, impl CanonicalDeserialize for Proof  *)
(* ---------------------------------------------------------------------- *)
\* the coordinates taken as they are held, without into_affine
ToProofAffine_Raw(prf) ==
    ProofAffine([x |-> prf.random_commit.x, y |-> prf.random_commit.y,
                 infinity |-> prf.random_commit.z = 0], prf.opening)

\* lines 49-52, 57-60, 65-68, 73-76, 81-84: the ProofAffine built by every method
ToProofAffine(prf) == ProofAffine(IntoAffine(prf.random_commit), prf.opening)

serialize(prf) == ProofAffineSerialize(ToProofAffine(prf))
serialized_size(prf) == ProofAffineSerializedSize(ToProofAffine(prf))
serialize_uncompressed(prf) == ProofAffineSerializeUncompressed(ToProofAffine(prf))
serialize_unchecked(prf) == ProofAffineSerializeUnchecked(ToProofAffine(prf))
uncompressed_size(prf) == ProofAffineUncompressedSize(ToProofAffine(prf))

NoProof == [random_commit |-> ProjectiveZero, opening |-> Curve.r]
ProofOk(prf) == [tag |-> "Ok", proof |-> prf, err |-> ""]
SerializationError(e) == [tag |-> "Err", proof |-> NoProof, err |-> e]

\* a second error raised in place of the one received
FromProofAffine_Rewrapped(a) ==
    IF a.tag = "Err" THEN SerializationError("InvalidData")
    ELSE ProofOk([random_commit |-> IntoProjective(a.value.random_commit),
                  opening |-> a.value.opening])

\* lines 92-95, 100-103, 108-111: `?` on the ProofAffine, then the Proof
FromProofAffine(a) ==
    IF a.tag = "Err" THEN SerializationError(a.err)
    ELSE ProofOk([random_commit |-> IntoProjective(a.value.random_commit),
                  opening |-> a.value.opening])

\* the compressed decoder reading the uncompressed layout
deserialize_AsUncompressed(bytes) == FromProofAffine(ProofAffineDeserializeUncompressed(bytes))

\* the unchecked decoder calling the checked decoder of the same layout
deserialize_unchecked_Checked(bytes) == FromProofAffine(ProofAffineDeserializeUncompressed(bytes))

deserialize(bytes) == FromProofAffine(ProofAffineDeserialize(bytes))
deserialize_uncompressed(bytes) == FromProofAffine(ProofAffineDeserializeUncompressed(bytes))
deserialize_unchecked(bytes) == FromProofAffine(ProofAffineDeserializeUnchecked(bytes))

\* derive(PartialEq) of Proof
ProofEq(p1, p2) == ProjEq(p1.random_commit, p2.random_commit) /\ p1.opening = p2.opening

(* ---------------------------------------------------------------------- *)
(* Inputs                                                                  *)
(* ---------------------------------------------------------------------- *)
Params == {MulTable[Generator][k] : k \in 1..MaxParam}
Commitments ==
    {ProjectiveZero} \cup
    {Rescale(P, z) : P \in AffinePoints \ {AffineZero}, z \in 1..MaxZ}
Proofs == [random_commit : Commitments, opening : ScalarField]
FreshRngs == [seed : 0..MaxSeed, pos : {0}]

IdleProof == [random_commit |-> ProjectiveZero, opening |-> 0]
IdleRng == [seed |-> 0, pos |-> 0]

\* bytes on the wire: every flag pattern over the low values 0..MaxLow
WireBytes == {f * Flags.shift + v : f \in 0..3, v \in 0..MaxLow}
\* the lengths of the short inputs: up to the length of an uncompressed Proof
InputLengths == 0..3
Repeat(b, n) == [j \in 1..n |-> b]

(* ---------------------------------------------------------------------- *)
(* State                                                                   *)
(* ---------------------------------------------------------------------- *)
Verifiers == {1, 2}

\* one transcript for every call
Transcript_Shared(i) == 1

\* fs_rng: &mut FiatShamirRng<D>, the exclusive borrow of the transcript of call i
Transcript(i) == i
NoChallenge == Curve.r

VARIABLES
    pp,         \* &Parameters<C>, shared by the verifiers
    statement,  \* &Statement<C>, shared by the verifiers
    proof,      \* &self of each call of verify
    fs_rng,     \* the &mut FiatShamirRng<D> of each call
    fs_entry,   \* the state of that transcript when verify was entered
    pc,         \* the position of each call in verify
    c,          \* the local c of each call
    result,     \* the value each call returned
    calls,      \* the calls each call made on its transcript, in order
    enc,        \* the last call of a CanonicalSerialize method, or the bytes received
    dec         \* the last call of a CanonicalDeserialize method

verifierVars == <<pp, statement, proof, fs_rng, fs_entry, pc, c, result, calls>>
codecVars == <<enc, dec>>
vars == <<pp, statement, proof, fs_rng, fs_entry, pc, c, result, calls, enc, dec>>

(* ---------------------------------------------------------------------- *)
(* Proof::verify, one action per statement                                 *)
(* ---------------------------------------------------------------------- *)
\* lines 28-33: fs_rng.absorb(&to_bytes![...]?)
Absorb(i) ==
    /\ pc[i] = "start"
    /\ LET bytes == AbsorbedBytes(pp, statement, proof[i])
       IN  /\ fs_rng' = [fs_rng EXCEPT ![Transcript(i)] = RngAbsorb(fs_rng[Transcript(i)], bytes)]
           /\ calls' = [calls EXCEPT ![i] = Append(calls[i], [op |-> "absorb", bytes |-> bytes])]
    /\ pc' = [pc EXCEPT ![i] = "absorbed"]
    /\ UNCHANGED <<pp, statement, proof, fs_entry, c, result, codecVars>>

\* line 35: let c = C::ScalarField::rand(fs_rng)
Derive(i) ==
    /\ pc[i] = "absorbed"
    /\ LET d == RandScalar(fs_rng[Transcript(i)])
       IN  /\ c' = [c EXCEPT ![i] = d.value]
           /\ fs_rng' = [fs_rng EXCEPT ![Transcript(i)] = d.rng]
    /\ calls' = [calls EXCEPT ![i] = Append(calls[i], [op |-> "rand", bytes |-> <<>>])]
    /\ pc' = [pc EXCEPT ![i] = "derived"]
    /\ UNCHANGED <<pp, statement, proof, fs_entry, result, codecVars>>

\* lines 37-43: the comparison and the returned Result
Compare(i) ==
    /\ pc[i] = "derived"
    /\ result' = [result EXCEPT ![i] =
           IF EquationFails(pp, statement, proof[i], c[i]) THEN ProofVerificationError ELSE Ok]
    /\ pc' = [pc EXCEPT ![i] = "done"]
    /\ UNCHANGED <<pp, statement, proof, fs_rng, fs_entry, c, calls, codecVars>>

(* ---------------------------------------------------------------------- *)
(* The codec, one action per method                                        *)
(* ---------------------------------------------------------------------- *)
EncIdle == [op |-> "idle", proof |-> NoProof, bytes |-> <<>>, size |-> 0]
DecIdle == [op |-> "idle", result |-> SerializationError("")]

\* one session of the codec: a buffer is written once, then read by the decoders
Encoded(op, prf, bytes) ==
    /\ enc.op = "idle"
    /\ enc' = [op |-> op, proof |-> prf, bytes |-> bytes, size |-> Len(bytes)]
    /\ dec' = DecIdle
    /\ UNCHANGED verifierVars

Sized(op, prf, n) ==
    /\ enc.op = "idle"
    /\ enc' = [op |-> op, proof |-> prf, bytes |-> <<>>, size |-> n]
    /\ dec' = DecIdle
    /\ UNCHANGED verifierVars

Serialize(prf) == Encoded("serialize", prf, serialize(prf))
SerializedSize(prf) == Sized("serialized_size", prf, serialized_size(prf))
SerializeUncompressed(prf) == Encoded("serialize_uncompressed", prf, serialize_uncompressed(prf))
SerializeUnchecked(prf) == Encoded("serialize_unchecked", prf, serialize_unchecked(prf))
UncompressedSize(prf) == Sized("uncompressed_size", prf, uncompressed_size(prf))

\* the reader handed to a decoder holds bytes that no encoder of this process wrote
Receive(bytes) == Encoded("received", NoProof, bytes)

\* any bytes, of any length up to that of an uncompressed Proof
ReceiveShort ==
    /\ enc.op = "idle"
    /\ \E b1 \in WireBytes, b2 \in WireBytes, b3 \in WireBytes, n \in InputLengths :
        Receive(SubSeq(<<b1, b2, b3>>, 1, n))

\* a complete encoding followed by further bytes
ReceiveLong ==
    /\ enc.op = "idle"
    /\ \E prf \in Proofs, b \in WireBytes, n \in 1..MaxTrailing :
        \/ Receive(serialize(prf) \o Repeat(b, n))
        \/ Receive(serialize_uncompressed(prf) \o Repeat(b, n))

HasBytes == enc.op \in {"serialize", "serialize_uncompressed", "serialize_unchecked", "received"}

Decoded(op, res) ==
    /\ HasBytes
    /\ dec' = [op |-> op, result |-> res]
    /\ UNCHANGED <<enc, verifierVars>>

Deserialize == Decoded("deserialize", deserialize(enc.bytes))
DeserializeUncompressed == Decoded("deserialize_uncompressed", deserialize_uncompressed(enc.bytes))
DeserializeUnchecked == Decoded("deserialize_unchecked", deserialize_unchecked(enc.bytes))

VerifierInit(P, S, prfs, rngs, started) ==
    /\ pp = P
    /\ statement = S
    /\ proof = prfs
    /\ fs_rng = rngs
    /\ fs_entry = rngs
    /\ pc = [i \in Verifiers |-> IF i \in started THEN "start" ELSE "idle"]
    /\ c = [i \in Verifiers |-> NoChallenge]
    /\ result = [i \in Verifiers |-> Pending]
    /\ calls = [i \in Verifiers |-> <<>>]

CodecInit == enc = EncIdle /\ dec = DecIdle

(* ---------------------------------------------------------------------- *)
(* Specifications                                                          *)
(* ---------------------------------------------------------------------- *)
\* one call of verify: verifier 1 is called, verifier 2 is never started
Init ==
    /\ \E P \in Params, S \in AffinePoints, p1 \in Proofs, t1 \in FreshRngs :
          VerifierInit(P, S, [i \in Verifiers |-> IF i = 1 THEN p1 ELSE IdleProof],
                       [i \in Verifiers |-> IF i = 1 THEN t1 ELSE IdleRng], {1})
    /\ CodecInit

Next == \E i \in Verifiers : Absorb(i) \/ Derive(i) \/ Compare(i)

Spec == Init /\ [][Next]_vars

\* two calls of verify on separate transcripts, their steps interleaved
ParStatements == {MulTable[Generator][7]}
ParCommitments == {Rescale(MulTable[Generator][3], z) : z \in 1..MaxZ}
ParProofs == [random_commit : ParCommitments, opening : ScalarField]

InitPar ==
    /\ \E S \in ParStatements, prfs \in [Verifiers -> ParProofs], rngs \in [Verifiers -> FreshRngs] :
          VerifierInit(Generator, S, prfs, rngs, Verifiers)
    /\ CodecInit

SpecPar == InitPar /\ [][Next]_vars

\* the codec alone
InitCodec ==
    /\ VerifierInit(Generator, AffineZero, [i \in Verifiers |-> IdleProof],
                    [i \in Verifiers |-> IdleRng], {})
    /\ CodecInit

NextCodec ==
    \/ /\ enc.op = "idle"
       /\ \E prf \in Proofs :
          \/ Serialize(prf)
          \/ SerializedSize(prf)
          \/ SerializeUncompressed(prf)
          \/ SerializeUnchecked(prf)
          \/ UncompressedSize(prf)
    \/ ReceiveShort
    \/ ReceiveLong
    \/ Deserialize
    \/ DeserializeUncompressed
    \/ DeserializeUnchecked

SpecCodec == InitCodec /\ [][NextCodec]_vars

(* ---------------------------------------------------------------------- *)
(* Properties                                                              *)
(* ---------------------------------------------------------------------- *)
\* discrete logarithms to the base Generator
Log(P) == CHOOSE k \in ScalarField : MulTable[Generator][k] = P
LogTable == [P \in AffinePoints |-> Log(P)]
LogOf(P) == LogTable[IntoAffine(P)]
SMod(v) == v % Curve.r

\* the challenge a call of verify derives: from its transcript at entry, after the absorb
ChallengeOf(rng, params, stmt, prf) ==
    RandScalar(RngAbsorb(rng, AbsorbedBytes(params, stmt, prf))).value

\* parameters * opening + statement * ch = random_commit, in discrete logarithms
EquationHolds(params, stmt, prf, ch) ==
    SMod(LogTable[params] * prf.opening + LogTable[stmt] * ch) = LogOf(prf.random_commit)

\* C1: a finished call of verify returned Ok(()) iff parameters * opening +
\* statement * c equals random_commit, c being the challenge derived from the
\* transcript after the absorb, and in every other case it returned
\* ProofVerificationError("Schnorr Identification").
TheoremC1 ==
    \A i \in Verifiers : pc[i] = "done" =>
        /\ c[i] = ChallengeOf(fs_entry[i], pp, statement, proof[i])
        /\ result[i] = IF EquationHolds(pp, statement, proof[i], c[i])
                       THEN Ok
                       ELSE [tag |-> "ProofVerificationError", msg |-> "Schnorr Identification"]

\* an accepted proof with a non-trivial statement, challenge and opening
WitnessC1 ==
    \E i \in Verifiers :
        /\ pc[i] = "done" /\ result[i] = Ok
        /\ ~statement.infinity /\ c[i] # 0 /\ proof[i].opening # 0
        /\ proof[i].random_commit.z > 1

\* the proof made from the witness x and the nonce r with the response nonce + sign * c * x
HonestProof(i, x, r, sign) ==
    /\ statement = MulTable[pp][x]
    /\ ProjEq(proof[i].random_commit, Mul(pp, r))
    /\ proof[i].opening = SMod(r + Curve.r * Curve.r + sign * c[i] * x)

\* C2 as stated: the proof (random_commit = Parameters * r, opening = r + c * x) is
\* accepted; with x = 7, r = 3, c = 5 the opening 38 mod p is accepted and 37 rejected.
OriginalC2 ==
    \A i \in Verifiers : pc[i] = "done" =>
        /\ \A x \in ScalarField, r \in ScalarField :
              HonestProof(i, x, r, 1) => result[i] = Ok
        /\ (statement = MulTable[pp][7] /\ ProjEq(proof[i].random_commit, Mul(pp, 3)) /\ c[i] = 5) =>
              /\ proof[i].opening = SMod(38) => result[i] = Ok
              /\ proof[i].opening = SMod(37) => result[i] = ProofVerificationError

\* C2, amended: the proof (random_commit = Parameters * r, opening = r - c * x) is
\* accepted for every witness x and every r; with x = 7, r = 3, c = 5 the opening
\* (3 - 35) mod p is accepted and every other opening is rejected.
TheoremC2 ==
    \A i \in Verifiers : pc[i] = "done" =>
        /\ \A x \in ScalarField, r \in ScalarField :
              HonestProof(i, x, r, -1) => result[i] = Ok
        /\ (statement = MulTable[pp][7] /\ ProjEq(proof[i].random_commit, Mul(pp, 3)) /\ c[i] = 5) =>
              (result[i] = Ok <=> proof[i].opening = SMod(3 + Curve.r * Curve.r - 35))

\* the scenario x = 7, r = 3, c = 5 with the opening (3 - 35) mod p, accepted
WitnessC2 ==
    \E i \in Verifiers :
        /\ pc[i] = "done" /\ c[i] = 5
        /\ HonestProof(i, 7, 3, -1)
        /\ result[i] = Ok

\* C3: the transcript of a call receives, before the challenge is derived, one
\* absorb of exactly the label, the parameters, the statement and the
\* random_commit, in that order; the challenge is derived after it, exactly once.
TheoremC3 ==
    \A i \in Verifiers :
        LET absorbed == [op |-> "absorb",
                         bytes |-> Label \o AffineToBytes(pp) \o AffineToBytes(statement)
                                         \o ProjectiveToBytes(proof[i].random_commit)]
            derived  == [op |-> "rand", bytes |-> <<>>]
        IN  /\ pc[i] \in {"idle", "start"} => calls[i] = <<>> /\ c[i] = NoChallenge
            /\ pc[i] = "absorbed" => calls[i] = <<absorbed>> /\ c[i] = NoChallenge
            /\ pc[i] \in {"derived", "done"} =>
                  calls[i] = <<absorbed, derived>> /\ c[i] \in ScalarField

\* a finished call whose parameters, statement and commitment are pairwise different
WitnessC3 ==
    \E i \in Verifiers :
        /\ pc[i] = "done" /\ Len(calls[i]) = 2
        /\ pp # statement /\ ~statement.infinity
        /\ proof[i].random_commit.z > 1
        /\ IntoAffine(proof[i].random_commit) \notin {pp, statement}

\* the transcript a call leaves, from what it found and the three absorbed values
TranscriptAfter(rng, params, stmt, commit) ==
    RandScalar(RngAbsorb(rng, Label \o AffineToBytes(params) \o AffineToBytes(stmt)
                                    \o ProjectiveToBytes(commit))).rng

\* C4: no step of verify changes the Proof, the parameters or the statement, and
\* the transcript a finished call leaves is the one absorb and one derivation
\* applied to the transcript it found, whatever the opening and the outcome.
TheoremC4 ==
    [][ /\ pp' = pp /\ statement' = statement /\ proof' = proof
        /\ \A i \in Verifiers : pc'[i] = "done" =>
              fs_rng'[Transcript(i)] =
                  TranscriptAfter(fs_entry'[Transcript(i)], pp', statement', proof'[i].random_commit)
      ]_vars

\* a rejected call that has advanced its transcript, by more than one draw
WitnessC4 ==
    \E i \in Verifiers :
        /\ pc[i] = "done" /\ result[i] = ProofVerificationError
        /\ fs_rng[Transcript(i)] # fs_entry[Transcript(i)]
        /\ fs_rng[Transcript(i)].pos > 1

\* verify run from the transcript rng on the given values
VerifyAlone(rng, params, stmt, prf) ==
    LET d == RandScalar(RngAbsorb(rng, AbsorbedBytes(params, stmt, prf)))
    IN  [result |-> IF EquationFails(params, stmt, prf, d.value) THEN ProofVerificationError ELSE Ok,
         c |-> d.value, rng |-> d.rng]

\* the inputs that differ from those of call i in one absorbed value
ChangedInputs(i) ==
    {[pp |-> P, statement |-> statement, proof |-> proof[i]] : P \in Params \ {pp}}
    \cup {[pp |-> pp, statement |-> S, proof |-> proof[i]] : S \in AffinePoints \ {statement}}
    \cup {[pp |-> pp, statement |-> statement, proof |-> [proof[i] EXCEPT !.random_commit = R]] :
             R \in Commitments \ {proof[i].random_commit}}

TheoremC9 ==
    \A i \in Verifiers : pc[i] = "done" =>
        LET alone == VerifyAlone(fs_entry[i], pp, statement, proof[i])
        IN  /\ result[i] = alone.result
            /\ c[i] = alone.c
            /\ fs_rng[i] = alone.rng

\* call 1 finished and accepted while call 2, which will reject, is between its steps
WitnessC9 ==
    /\ pc[1] = "done" /\ result[1] = Ok
    /\ pc[2] = "absorbed"
    /\ VerifyAlone(fs_entry[2], pp, statement, proof[2]).result = ProofVerificationError

\* the decoder of the mode an encoder wrote
DecoderOf(op) ==
    CASE op = "serialize" -> "deserialize"
      [] op = "serialize_uncompressed" -> "deserialize_uncompressed"
      [] op = "serialize_unchecked" -> "deserialize_unchecked"
      [] OTHER -> "none"

\* C5: in each of the three modes, decoding with a mode the bytes that encoding a
\* Proof with the same mode produced succeeds and yields an equal Proof: the
\* random_commit equal as a group element, the opening equal as a scalar.
TheoremC5 ==
    (dec.op # "idle" /\ dec.op = DecoderOf(enc.op)) =>
        /\ dec.result.tag = "Ok"
        /\ ProjEq(dec.result.proof.random_commit, enc.proof.random_commit)
        /\ dec.result.proof.opening = enc.proof.opening

\* a round trip in the compressed mode of a commitment held with Z > 1 and a
\* y coordinate that sets the sign flag
WitnessC5 ==
    /\ enc.op = "serialize" /\ dec.op = "deserialize"
    /\ enc.proof.random_commit.z > 1
    /\ enc.bytes[1] >= Flags.positive_y
    /\ dec.result.tag = "Ok"

\* what the bytes of a reader hold, for the layout of a checked decoder
ExpectedLength(op) == IF op = "deserialize" THEN 2 ELSE 3
FlagsOf(b) == (b \div Flags.shift) * Flags.shift
LowOf(b) == b % Flags.shift
BadFlags(b) == FlagsOf(b) = Flags.infinity + Flags.positive_y

\* the point bytes of a complete input are not a group element
InvalidPointBytes(op, bytes) ==
    IF op = "deserialize"
    THEN \/ BadFlags(bytes[1])
         \/ LowOf(bytes[1]) >= Curve.q
         \/ /\ FlagsOf(bytes[1]) # Flags.infinity
            /\ \A y \in BaseField : ~IsOnCurve(Aff(LowOf(bytes[1]), y))
    ELSE \/ bytes[1] >= Curve.q
         \/ BadFlags(bytes[2])
         \/ LowOf(bytes[2]) >= Curve.q
         \/ /\ FlagsOf(bytes[2]) # Flags.infinity
            /\ ~IsOnCurve(Aff(bytes[1], LowOf(bytes[2])))

\* the scalar byte of a complete input is not an element of the scalar field
InvalidScalarBytes(op, bytes) == bytes[ExpectedLength(op)] >= Curve.r

CheckedDecoders == {"deserialize", "deserialize_uncompressed"}
InnerDecode(op, bytes) ==
    IF op = "deserialize" THEN ProofAffineDeserialize(bytes)
    ELSE ProofAffineDeserializeUncompressed(bytes)

\* C7 as stated: a checked decoder returns a SerializationError, the one of the
\* affine decode, and no Proof when the input has the wrong length or holds
\* invalid point or scalar bytes.
OriginalC7 ==
    dec.op \in CheckedDecoders =>
        LET bad == \/ Len(enc.bytes) # ExpectedLength(dec.op)
                   \/ InvalidPointBytes(dec.op, enc.bytes)
                   \/ InvalidScalarBytes(dec.op, enc.bytes)
        IN  bad => /\ dec.result.tag = "Err"
                   /\ dec.result.proof = NoProof
                   /\ dec.result.err = InnerDecode(dec.op, enc.bytes).err

\* C7, amended: a checked decoder returns a SerializationError, the one of the
\* affine decode, and no Proof when the input is shorter than the encoding or its
\* point or scalar bytes are invalid, and a Proof in every other case: bytes
\* that follow a complete encoding are left unread.
TheoremC7 ==
    dec.op \in CheckedDecoders =>
        LET n   == ExpectedLength(dec.op)
            bad == \/ Len(enc.bytes) < n
                   \/ InvalidPointBytes(dec.op, enc.bytes)
                   \/ InvalidScalarBytes(dec.op, enc.bytes)
        IN  IF bad
            THEN /\ dec.result.tag = "Err"
                 /\ dec.result.proof = NoProof
                 /\ dec.result.err = InnerDecode(dec.op, enc.bytes).err
                 /\ dec.result.err \in {"IoError", "InvalidData", "UnexpectedFlags"}
            ELSE /\ dec.result.tag = "Ok"
                 /\ dec.result.err = ""

\* an uncompressed input whose coordinates are field elements off the curve,
\* followed by a valid scalar, refused by the checked decoder
WitnessC7 ==
    /\ dec.op = "deserialize_uncompressed" /\ enc.op = "received"
    /\ Len(enc.bytes) = 3
    /\ enc.bytes[1] < Curve.q /\ enc.bytes[2] < Curve.q /\ enc.bytes[3] < Curve.r
    /\ ~IsOnCurve(Aff(enc.bytes[1], enc.bytes[2]))
    /\ dec.result = SerializationError("InvalidData")

\* C8: deserialize_unchecked returns the Proof of the coordinates and the scalar
\* it reads whenever they are field elements with valid flags, on the curve or
\* not; for coordinates off the curve the checked decoder of the same layout
\* returns a SerializationError.
TheoremC8 ==
    dec.op = "deserialize_unchecked" =>
        LET b == enc.bytes
            readable == /\ Len(b) >= 3
                        /\ b[1] < Curve.q /\ ~BadFlags(b[2]) /\ LowOf(b[2]) < Curve.q
                        /\ b[3] < Curve.r
        IN  /\ dec.result.tag = "Ok" <=> readable
            /\ readable =>
                  /\ dec.result.proof.opening = b[3]
                  /\ dec.result.proof.random_commit =
                        IF FlagsOf(b[2]) = Flags.infinity THEN ProjectiveZero
                        ELSE Proj(b[1], LowOf(b[2]), 1)
                  /\ InvalidPointBytes("deserialize_uncompressed", b) =>
                        deserialize_uncompressed(b).tag = "Err"

\* bytes with coordinates off the curve: a Proof from deserialize_unchecked, a
\* SerializationError from deserialize_uncompressed
WitnessC8 ==
    /\ dec.op = "deserialize_unchecked" /\ enc.op = "received"
    /\ Len(enc.bytes) = 3
    /\ dec.result.tag = "Ok"
    /\ dec.result.proof.random_commit.z = 1
    /\ ~IsOnCurve(Aff(dec.result.proof.random_commit.x, dec.result.proof.random_commit.y))
    /\ deserialize_uncompressed(enc.bytes).tag = "Err"

\* what an encoder or size method returns for a Proof
OutputOf(op, prf) ==
    CASE op = "serialize" -> serialize(prf)
      [] op = "serialize_uncompressed" -> serialize_uncompressed(prf)
      [] op = "serialize_unchecked" -> serialize_unchecked(prf)
      [] op = "serialized_size" -> <<serialized_size(prf)>>
      [] op = "uncompressed_size" -> <<uncompressed_size(prf)>>

EncoderOps ==
    {"serialize", "serialize_uncompressed", "serialize_unchecked", "serialized_size", "uncompressed_size"}

\* C10: every Proof whose random_commit is the same group element, in whatever
\* Jacobian representation, and whose opening is equal gets the same bytes and
\* the same size from each encoder and size method; the bytes end with the
\* opening unchanged.
TheoremC10 ==
    enc.op \in EncoderOps =>
        /\ \A q \in Proofs :
              (ProjEq(q.random_commit, enc.proof.random_commit) /\ q.opening = enc.proof.opening)
                  => OutputOf(enc.op, q) =
                        (IF enc.op \in {"serialized_size", "uncompressed_size"}
                         THEN <<enc.size>> ELSE enc.bytes)
        /\ enc.op \in {"serialize", "serialize_uncompressed", "serialize_unchecked"} =>
              /\ enc.bytes[Len(enc.bytes)] = enc.proof.opening
              /\ enc.size = Len(enc.bytes)

\* an encoded Proof whose commitment is held with Z > 1
WitnessC10 ==
    /\ enc.op = "serialize_uncompressed"
    /\ enc.proof.random_commit.z > 1
    /\ Len(enc.bytes) = 3

====
